---- MODULE Spec2Model ----
(***************************************************************************)
(* The website generation pipeline of src/src/website_generator.py, its    *)
(* caller in src/main.py, and the text helpers they use.                   *)
(*                                                                         *)
(* A text is a sequence of one-character strings.                          *)
(***************************************************************************)
EXTENDS Integers, Sequences, FiniteSets, TLC

(***************************************************************************)
(* Bounds of the model.                                                    *)
(***************************************************************************)
\* the longest text of SpecNorm, counted in chunks of Chunks
MaxChunks == 5

\* the texts given to extract_json_from_string are made of at most this many
\* pieces
MaxJsonChunks == 5

\* the products lists given to SiteData hold at most this many products
MaxProducts == 5

\* the galleryItems lists given to SiteData hold at most this many items
MaxGalleryItems == 7

\* a preview session starts at most this many processes
MaxPreviewStarts == 3

(***************************************************************************)
(* Texts.                                                                  *)
(***************************************************************************)
\* the characters \s matches and str.strip() removes
Whitespace == {" ", "\n"}

\* the characters [a-zA-Z] matches, among those the model's texts use
Letters == {"a", "c", "j", "n", "o", "s", "t", "x"}

\* the backtick character
Backtick == "~"

\* the literal ``` of the three patterns
Fence == <<Backtick, Backtick, Backtick>>

TSX == <<"t", "s", "x">>

CSS == <<"c", "s", "s">>

JSON == <<"j", "s", "o", "n">>

\* s[i:] starts with p (i is 1-based)
StartsAt(s, i, p) ==
    /\ i >= 1
    /\ i + Len(p) - 1 <= Len(s)
    /\ SubSeq(s, i, i + Len(p) - 1) = p

\* str.find / the leftmost position >= i where p occurs in s, 0 when none
RECURSIVE Find(_, _, _)
Find(s, p, i) ==
    IF i + Len(p) - 1 > Len(s) THEN 0
    ELSE IF StartsAt(s, i, p) THEN i
    ELSE Find(s, p, i + 1)

\* the position after the longest run of characters of set cls that starts at i
RECURSIVE SkipWhile(_, _, _)
SkipWhile(s, i, cls) ==
    IF i <= Len(s) /\ s[i] \in cls THEN SkipWhile(s, i + 1, cls) ELSE i

\* the last position of s, at or before i, that holds no whitespace (0 when none)
RECURSIVE LastNonSpace(_, _)
LastNonSpace(s, i) ==
    IF i >= 1 /\ s[i] \in Whitespace THEN LastNonSpace(s, i - 1) ELSE i

\* str.strip()
Strip(s) ==
    LET a == SkipWhile(s, 1, Whitespace)
        b == LastNonSpace(s, Len(s))
    IN  IF a > b THEN <<>> ELSE SubSeq(s, a, b)

NoMatch == [matched |-> FALSE, group1 |-> <<>>]

\* the pattern ```<language>\s*(.*?)\s*``` tried at position i of s:
\* \s* takes the whole run of whitespace, the lazy group stops at the first
\* position from which \s*``` matches
MatchFenceAt(s, language, i) ==
    IF ~StartsAt(s, i, Fence \o language) THEN NoMatch
    ELSE LET p == SkipWhile(s, i + Len(Fence) + Len(language), Whitespace)
             k == Find(s, Fence, p)
         IN  IF k = 0 THEN NoMatch
             ELSE [matched |-> TRUE,
                   group1  |-> SubSeq(s, p, LastNonSpace(s, k - 1))]

\* the same pattern with a greedy group, ```<language>\s*(.*)\s*```: the group
\* runs to the last ``` of s
MatchFenceAtGreedy(s, language, i) ==
    IF ~StartsAt(s, i, Fence \o language) THEN NoMatch
    ELSE LET p == SkipWhile(s, i + Len(Fence) + Len(language), Whitespace)
             k == CHOOSE j \in 0..Len(s) :
                     /\ j = 0 \/ (j >= p /\ StartsAt(s, j, Fence))
                     /\ \A m \in (j + 1)..Len(s) : ~(m >= p /\ StartsAt(s, m, Fence))
         IN  IF k = 0 THEN NoMatch
             ELSE [matched |-> TRUE, group1 |-> SubSeq(s, p, k - 1)]

\* pattern.search(s): the match at the leftmost position where one exists
RECURSIVE FenceSearchFrom(_, _, _)
FenceSearchFrom(s, language, i) ==
    IF i > Len(s) THEN NoMatch
    ELSE LET m == MatchFenceAt(s, language, i)
         IN  IF m.matched THEN m ELSE FenceSearchFrom(s, language, i + 1)

RECURSIVE FenceSearchFromGreedy(_, _, _)
FenceSearchFromGreedy(s, language, i) ==
    IF i > Len(s) THEN NoMatch
    ELSE LET m == MatchFenceAtGreedy(s, language, i)
         IN  IF m.matched THEN m ELSE FenceSearchFromGreedy(s, language, i + 1)

FenceSearchGreedy(s, language) == FenceSearchFromGreedy(s, language, 1)

FenceSearch(s, language) == FenceSearchFrom(s, language, 1)

\* re.sub(r"```[a-zA-Z]*", "", s): left to right, every ``` with the letters
\* that follow it is dropped
RECURSIVE SubFenceTag(_, _)
SubFenceTag(s, i) ==
    IF i > Len(s) THEN <<>>
    ELSE IF StartsAt(s, i, Fence)
         THEN SubFenceTag(s, SkipWhile(s, i + Len(Fence), Letters))
         ELSE <<s[i]>> \o SubFenceTag(s, i + 1)

\* s.replace("```", ""): left to right, every ``` is dropped
RECURSIVE ReplaceFence(_, _)
ReplaceFence(s, i) ==
    IF i > Len(s) THEN <<>>
    ELSE IF StartsAt(s, i, Fence)
         THEN ReplaceFence(s, i + Len(Fence))
         ELSE <<s[i]>> \o ReplaceFence(s, i + 1)

\* extract_code_from_string without the .strip() of its fallback
extract_code_from_stringUntrimmed(s, language) ==
    LET match == FenceSearch(s, language)
    IN  IF match.matched
        THEN Strip(match.group1)
        ELSE ReplaceFence(SubFenceTag(s, 1), 1)

extract_code_from_string(s, language) ==
    LET match == FenceSearch(s, language)
    IN  IF match.matched
        THEN Strip(match.group1)
        ELSE Strip(ReplaceFence(SubFenceTag(s, 1), 1))

(***************************************************************************)
(* JSON values and JSON texts.                                             *)
(*                                                                         *)
(* In a JSON text the character "4" stands for the serialized members of   *)
(* a complete site data object with 4 products, "2" for those of the same  *)
(* object with only 2 products.                                            *)
(***************************************************************************)
None == [kind |-> "None"]

Dict(items) == [kind |-> "dict", items |-> items]

EmptyDict == Dict(<<>>)

FullSite ==
    Dict([artisanInfo   |-> "artisan",
          products      |-> <<"p1", "p2", "p3", "p4">>,
          galleryItems  |-> <<"g1", "g2", "g3", "g4", "g5", "g6">>,
          navigation    |-> "navigation",
          designSystem  |-> "design",
          siteSettings  |-> "settings"])

TwoProductSite ==
    Dict([artisanInfo   |-> "artisan",
          products      |-> <<"p1", "p2">>,
          galleryItems  |-> <<"g1", "g2", "g3", "g4", "g5", "g6">>,
          navigation    |-> "navigation",
          designSystem  |-> "design",
          siteSettings  |-> "settings"])

\* the object whose members a character of a JSON text stands for
Members == [c \in {"4", "2"} |-> IF c = "4" THEN FullSite ELSE TwoProductSite]

\* json.loads(t): ok with the value, or JSONDecodeError
json_loads(t) ==
    LET u == Strip(t)
        inner == IF Len(u) >= 2 THEN Strip(SubSeq(u, 2, Len(u) - 1)) ELSE <<>>
    IN  IF Len(u) < 2 \/ u[1] # "{" \/ u[Len(u)] # "}"
        THEN [ok |-> FALSE, value |-> None]
        ELSE IF inner = <<>>
        THEN [ok |-> TRUE, value |-> EmptyDict]
        ELSE IF Len(inner) = 1 /\ inner[1] \in DOMAIN Members
        THEN [ok |-> TRUE, value |-> Members[inner[1]]]
        ELSE [ok |-> FALSE, value |-> None]

\* json.dumps(value, indent=indent): the text that loads back to value
json_dumps(value, indent) == [json |-> value, indent |-> indent]

\* Python's truth value of an extracted value: None and {} are false
Truthy(v) == v.kind = "dict" /\ DOMAIN v.items # {}

\* d.get(key, default)
DictGet(d, key, default) ==
    IF key \in DOMAIN d.items THEN d.items[key] ELSE default

\* the fields of SiteData, all required
RequiredKeys ==
    {"artisanInfo", "products", "galleryItems", "navigation", "designSystem",
     "siteSettings"}

\* Field(min_length=4) of SiteData.products
MinProducts == 4

\* Field(min_length=6) of SiteData.galleryItems
MinGalleryItems == 6

\* SiteData.model_validate(v) accepts v
SiteDataValid(v) ==
    /\ v.kind = "dict"
    /\ RequiredKeys \subseteq DOMAIN v.items
    /\ Len(v.items.products) >= MinProducts
    /\ Len(v.items.galleryItems) >= MinGalleryItems

\* str.rfind: the last position where character c occurs in s, 0 when none
RECURSIVE RFind(_, _, _)
RFind(s, c, i) ==
    IF i < 1 THEN 0 ELSE IF s[i] = c THEN i ELSE RFind(s, c, i - 1)

\* LocateJson with the brace scan tried before the fenced block
LocateJsonBracesFirst(s) ==
    LET match == FenceSearch(s, JSON)
        start == Find(s, <<"{">>, 1)
        end   == RFind(s, "}", Len(s))
    IN  IF start # 0 /\ end # 0 THEN Strip(SubSeq(s, start, end))
        ELSE IF match.matched THEN Strip(match.group1)
        ELSE <<>>

\* LocateJson with the brace scan tried when the fenced block does not parse
LocateJsonFallingBack(s) ==
    LET match == FenceSearch(s, JSON)
        start == Find(s, <<"{">>, 1)
        end   == RFind(s, "}", Len(s))
    IN  IF match.matched /\ json_loads(Strip(match.group1)).ok
        THEN Strip(match.group1)
        ELSE IF start # 0 /\ end # 0 THEN Strip(SubSeq(s, start, end))
        ELSE <<>>

\* the text extract_json_from_string hands to json.loads ("" when none located)
LocateJson(s) ==
    LET match == FenceSearch(s, JSON)
        start == Find(s, <<"{">>, 1)
        end   == RFind(s, "}", Len(s))
    IN  IF match.matched THEN Strip(match.group1)
        ELSE IF start # 0 /\ end # 0 THEN Strip(SubSeq(s, start, end))
        ELSE <<>>

extract_json_from_string(s) ==
    LET json_str == LocateJson(s)
    IN  IF json_str = <<>> THEN None
        ELSE IF json_loads(json_str).ok THEN json_loads(json_str).value
        ELSE None

\* str.removeprefix(p)
RemovePrefix(s, p) ==
    IF StartsAt(s, 1, p) THEN SubSeq(s, Len(p) + 1, Len(s)) ELSE s

\* str.removesuffix(p)
RemoveSuffix(s, p) ==
    IF Len(p) > 0 /\ StartsAt(s, Len(s) - Len(p) + 1, p)
    THEN SubSeq(s, 1, Len(s) - Len(p)) ELSE s

\* main.py: the cleaned completion, then re.search(r"\{.*\}", ..., re.S): from
\* the first "{" to the last "}" after it; no match when there is none
MainLocateJson(site_data_raw) ==
    LET cleaned_output ==
            Strip(RemoveSuffix(RemovePrefix(RemovePrefix(Strip(site_data_raw),
                      Fence \o JSON), Fence), Fence))
        start == Find(cleaned_output, <<"{">>, 1)
        end   == RFind(cleaned_output, "}", Len(cleaned_output))
    IN  IF start # 0 /\ end > start
        THEN [matched |-> TRUE, group0 |-> SubSeq(cleaned_output, start, end)]
        ELSE [matched |-> FALSE, group0 |-> <<>>]

(***************************************************************************)
(* Prompts.                                                                *)
(***************************************************************************)
\* the placeholders of each template of src/src/prompts.py
Placeholders ==
    [DATA_EXTRACTION_PROMPT |-> {"description"},
     REACT_COMPONENT_PROMPT |-> {"site_data", "component_name", "component_data"},
     REACT_PAGE_PROMPT      |-> {"site_data", "page_name"},
     LAYOUT_PROMPT          |-> {"site_data"},
     GLOBALS_CSS_PROMPT     |-> {"design_system"}]

\* template.format(**bindings): every placeholder is replaced by its binding,
\* bindings the template has no placeholder for are ignored
Format(template, bindings) ==
    [template |-> template,
     slots    |-> [k \in Placeholders[template] |-> bindings[k]]]

(***************************************************************************)
(* The output tree and the step catalog.                                   *)
(***************************************************************************)
generated_website_dir == "generated_website"

ProductsJson == "src/data/products.json"

\* the files of create_scaffolding_files, in the order they are written
ScaffoldingFiles ==
    <<"package.json", "tsconfig.json", "next.config.mjs", "postcss.config.mjs">>

components_to_generate ==
    <<[name |-> "Navbar",      path |-> "src/components/Navbar.tsx"],
      [name |-> "Footer",      path |-> "src/components/Footer.tsx"],
      [name |-> "ProductCard", path |-> "src/components/ProductCard.tsx"],
      [name |-> "ContactForm", path |-> "src/components/ContactForm.tsx"]>>

pages_to_generate ==
    <<[name |-> "homepage", path |-> "src/app/page.tsx"],
      [name |-> "products", path |-> "src/app/products/page.tsx"],
      [name |-> "about",    path |-> "src/app/about/page.tsx"],
      [name |-> "gallery",  path |-> "src/app/gallery/page.tsx"],
      [name |-> "contact",  path |-> "src/app/contact/page.tsx"]>>

\* one call of generate_and_write_code
GenStep(item, template, system) ==
    [name |-> item.name, path |-> item.path,
     template |-> template, system_prompt |-> system]

\* the calls of generate_and_write_code in the order generate_website_files
\* makes them
CatalogInOrder ==
    [i \in 1..Len(components_to_generate) |->
        GenStep(components_to_generate[i], "REACT_COMPONENT_PROMPT", "component")]
    \o [i \in 1..Len(pages_to_generate) |->
        GenStep(pages_to_generate[i], "REACT_PAGE_PROMPT", "page")]
    \o <<GenStep([name |-> "RootLayout", path |-> "src/app/layout.tsx"],
                 "LAYOUT_PROMPT", "layout")>>
    \o <<GenStep([name |-> "GlobalsCSS", path |-> "src/app/globals.css"],
                 "GLOBALS_CSS_PROMPT", "css")>>

\* the same calls with the pages generated before the components
CatalogPagesFirst ==
    [i \in 1..Len(pages_to_generate) |->
        GenStep(pages_to_generate[i], "REACT_PAGE_PROMPT", "page")]
    \o [i \in 1..Len(components_to_generate) |->
        GenStep(components_to_generate[i], "REACT_COMPONENT_PROMPT", "component")]
    \o SubSeq(CatalogInOrder, Len(CatalogInOrder) - 1, Len(CatalogInOrder))

\* the same calls with the stylesheet written to the path of the layout
CatalogSharedPath ==
    SubSeq(CatalogInOrder, 1, Len(CatalogInOrder) - 1)
    \o <<GenStep([name |-> "GlobalsCSS", path |-> "src/app/layout.tsx"],
                 "GLOBALS_CSS_PROMPT", "css")>>

Catalog == CatalogInOrder

NSteps == Len(Catalog)

\* "css" in file_sub_path
HasCss(file_sub_path) == file_sub_path \in {"src/app/globals.css"}

\* the tree after path is written with content
WriteFile(tree, path, content) ==
    [p \in DOMAIN tree \cup {path} |-> IF p = path THEN content ELSE tree[p]]

NoFiles == <<>>

\* the content create_scaffolding_files gives a file
Scaffold(filename) == [scaffold |-> filename, dependencies |-> "scaffold"]

\* the tree after the first n scaffolding files are written
RECURSIVE WriteScaffolding(_, _)
WriteScaffolding(tree, n) ==
    IF n = 0 THEN tree
    ELSE WriteFile(WriteScaffolding(tree, n - 1),
                   ScaffoldingFiles[n], Scaffold(ScaffoldingFiles[n]))

(***************************************************************************)
(* The state.                                                              *)
(***************************************************************************)
VARIABLES
    caller,     \* who runs the pipeline: "direct" or "main" (src/main.py)
    desc,       \* the business description the user gave
    kwargs,     \* the keyword arguments generate_website_files is called with
    pc,         \* where the run is
    files,      \* the output tree generated_website/: path -> content
    site_data,  \* generate_website_files' site_data
    step,       \* the catalog index of the next generation step
    calls,      \* the call_gemini invocations made so far, in order
    progress,   \* the invocations of the progress callback so far, in order
    result,     \* what generate_website_files returned
    failure,    \* the exception that ended the run
    ui,         \* what src/main.py shows last: "none", "error" or "success"
    attempts,   \* the requests the last call_gemini invocation sent the service
    nText,      \* SpecNorm: the text given to extract_code_from_string
    nLang,      \* SpecNorm: the language tag given with it
    nOut,       \* SpecNorm: the results so far, result of the n-th application
    nStage,     \* SpecNorm: how many times the function was applied
    jText,      \* SpecJson: the text given to extract_json_from_string
    jOut,       \* SpecJson: <<>>, or the value the function returned
    mModel,     \* SpecSchema: the model that validates, "Product" or "SiteData"
    mInput,     \* SpecSchema: the object given to the model
    mVerdict,   \* SpecSchema: "none", "accepted" or "ValidationError"
    tTemplate,  \* SpecTemplates: the name of the template that is rendered
    tBindings,  \* SpecTemplates: the bindings given to it, name -> value
    tOut,       \* SpecTemplates: <<>>, or the outcome of the rendering
    pvSession,  \* SpecPreview: "preview_server" is in st.session_state
    pvProcess,  \* SpecPreview: PreviewServer.process, 0 for None
    pvUrl,      \* SpecPreview: PreviewServer.local_url
    pvStarted,  \* SpecPreview: the processes subprocess.Popen started
    pvTerminated, \* SpecPreview: the processes terminate() was called on
    pvExited,   \* SpecPreview: the processes that ended by themselves
    pvDir,      \* SpecPreview: the directory generated_website exists
    pvLast      \* SpecPreview: the last thing done, "none" at first

runVars == <<caller, desc, kwargs, pc, files, site_data, step, calls, progress,
             result, failure, ui, attempts>>

normVars == <<nText, nLang, nOut, nStage>>

jsonVars == <<jText, jOut>>

\* the variables of the specifications of single functions
schemaVars == <<mModel, mInput, mVerdict>>

templateVars == <<tTemplate, tBindings, tOut>>

previewVars == <<pvSession, pvProcess, pvUrl, pvStarted, pvTerminated, pvExited,
                 pvDir, pvLast>>

pureVars == <<normVars, jsonVars, schemaVars, templateVars, previewVars>>

vars == <<runVars, pureVars>>

\* a specification leaves the variables of the others as they are
NormIdle == nText = <<>> /\ nLang = TSX /\ nOut = <<>> /\ nStage = 0

JsonIdle == jText = <<>> /\ jOut = <<>>

SchemaIdle == mModel = "Product" /\ mInput = <<>> /\ mVerdict = "none"

TemplatesIdle == tTemplate = "" /\ tBindings = <<>> /\ tOut = <<>>

PreviewIdle ==
    /\ pvSession = FALSE
    /\ pvProcess = 0
    /\ pvUrl = "None"
    /\ pvStarted = {}
    /\ pvTerminated = {}
    /\ pvExited = {}
    /\ pvDir = FALSE
    /\ pvLast = "none"

(***************************************************************************)
(* What the environment can answer.                                        *)
(***************************************************************************)
Descriptions == {<<>>, <<" ">>, <<"a">>}

\* completions of the data extraction prompt
ExtractionTexts ==
    { <<"{", "4", "}">>,
      Fence \o JSON \o <<"\n", "{", "4", "}", "\n">> \o Fence,
      <<"a", " ", "{", " ", "2", " ", "}", " ", "a">>,
      <<"a", " ", "a">>,
      <<"{", "a", "}">>,
      <<"{", "}">>,
      Fence \o JSON \o <<"\n", "a", "\n">> \o Fence \o <<"{", "4", "}">> }

\* completions of a generation prompt
GenerationTexts ==
    { Fence \o TSX \o <<"\n", "a", "1", "\n">> \o Fence,
      <<"a", "1">>,
      Fence \o TSX \o <<"\n">> \o Fence,
      Fence \o TSX \o <<"\n">> \o Fence \o <<"\n">>
          \o Fence \o CSS \o <<"\n", "1", "\n">> \o Fence }

\* a tree left by an earlier run that succeeded
RECURSIVE WriteArtifacts(_, _)
WriteArtifacts(tree, n) ==
    IF n = 0 THEN tree
    ELSE WriteFile(WriteArtifacts(tree, n - 1), Catalog[n].path,
                   [text |-> <<"a", "1">>])

PreviousOutput ==
    WriteFile(
        WriteArtifacts(
            WriteFile(WriteScaffolding(NoFiles, Len(ScaffoldingFiles)),
                      ProductsJson, json_dumps(FullSite, "2")),
            NSteps),
        "package.json", [scaffold |-> "package.json", dependencies |-> "common"])

NoFailure == [state |-> "", cause |-> "", step |-> 0]

NoResult == <<>>

(***************************************************************************)
(* Calling generate_website_files.                                         *)
(***************************************************************************)
\* def generate_website_files(user_prompt: str) -> str
Parameters == {"user_prompt"}

\* a signature that takes any further keyword arguments (**kwargs)
BindsArgumentsAndMore(kw) == Parameters \subseteq DOMAIN kw

\* Python binds the keyword arguments to the parameters, or raises TypeError
BindsArguments(kw) ==
    /\ DOMAIN kw \subseteq Parameters
    /\ Parameters \subseteq DOMAIN kw

\* the call src/main.py makes
MainKwargs(site_data_parsed, description) ==
    [site_data_raw     |-> json_dumps(site_data_parsed, "2"),
     user_prompt       |-> description,
     output_path       |-> generated_website_dir,
     progress_callback |-> "website_progress_callback"]

\* the calls of a direct caller: as the signature has it, or with a sink
DirectKwargs(description) ==
    { [user_prompt |-> description],
      [user_prompt |-> description, progress_callback |-> "sink"] }

\* src/src/ai_utils.py: llm = ChatVertexAI(..., max_retries=2)
max_retries == 2

\* the requests one chain.invoke sends at most: the first and the retries of
\* the chat model
MaxAttempts == 1 + max_retries

\* one call_gemini invocation
Call(purpose, prompt, system_prompt) ==
    [purpose |-> purpose, prompt |-> prompt, system_prompt |-> system_prompt]

Raise(state, cause, n) == [state |-> state, cause |-> cause, step |-> n]

\* no run of the pipeline is under way
RunIdle ==
    /\ caller = "direct"
    /\ desc = <<>>
    /\ kwargs = <<>>
    /\ pc = "function"
    /\ files = NoFiles
    /\ site_data = None
    /\ step = 0
    /\ calls = <<>>
    /\ progress = <<>>
    /\ result = NoResult
    /\ failure = NoFailure
    /\ ui = "none"
    /\ attempts = 0

Init ==
    /\ caller \in {"direct", "main"}
    /\ desc \in Descriptions
    /\ kwargs \in IF caller = "direct" THEN DirectKwargs(desc) ELSE {<<>>}
    /\ pc = IF caller = "direct" THEN "Initializing" ELSE "main"
    /\ files \in {NoFiles, PreviousOutput}
    /\ site_data = None
    /\ step = 0
    /\ calls = <<>>
    /\ progress = <<>>
    /\ result = NoResult
    /\ failure = NoFailure
    /\ ui = "none"
    /\ attempts = 0
    /\ NormIdle
    /\ JsonIdle
    /\ SchemaIdle
    /\ TemplatesIdle
    /\ PreviewIdle

(***************************************************************************)
(* src/main.py: the "Generate Website Files" handler.                      *)
(***************************************************************************)
\* lines 38-97: the description is checked, the data is extracted and parsed
\* inline, written to products.json, and generate_website_files is called
MainGenerateClicked ==
    /\ pc = "main"
    /\ UNCHANGED <<caller, desc, site_data, step, progress, result, failure, pureVars>>
    /\ IF Strip(desc) = <<>>
       THEN /\ ui' = "error"
            /\ pc' = "main_end"
            /\ UNCHANGED <<kwargs, files, calls, attempts>>
       ELSE /\ calls' = Append(calls,
                   Call("extraction",
                        Format("DATA_EXTRACTION_PROMPT", [description |-> desc]),
                        "Return strictly valid JSON."))
            /\ attempts' \in 1..MaxAttempts
            /\ \/ \* call_gemini raises
                  /\ ui' = "error"
                  /\ pc' = "main_end"
                  /\ UNCHANGED <<kwargs, files>>
               \/ \E site_data_raw \in ExtractionTexts :
                     LET match == MainLocateJson(site_data_raw)
                         parsed == json_loads(match.group0)
                     IN  IF ~match.matched \/ ~parsed.ok
                         THEN \* ValueError("No JSON object found"), JSONDecodeError
                              /\ ui' = "error"
                              /\ pc' = "main_end"
                              /\ UNCHANGED <<kwargs, files>>
                         ELSE \/ /\ files' = WriteFile(files, ProductsJson,
                                                 json_dumps(parsed.value, "2"))
                                 /\ kwargs' = MainKwargs(parsed.value, desc)
                                 /\ pc' = "Initializing"
                                 /\ UNCHANGED ui
                              \/ \* the file cannot be written
                                 /\ ui' = "error"
                                 /\ pc' = "main_end"
                                 /\ UNCHANGED <<kwargs, files>>

\* lines 99-145: st.success after the call returned, st.error in the except
MainShowsOutcome ==
    /\ caller = "main"
    /\ pc \in {"Done", "Failed"}
    /\ ui = "none"
    /\ ui' = IF pc = "Done" THEN "success" ELSE "error"
    /\ UNCHANGED <<caller, desc, kwargs, pc, files, site_data, step, calls,
                   progress, result, failure, attempts, pureVars>>

\* generate_website_files' set-up without shutil.rmtree: the scaffolding
\* files are written into the tree as it is
SetUpProjectDirectoryKeepingTree ==
    /\ pc = "Initializing"
    /\ UNCHANGED <<caller, desc, kwargs, site_data, step, calls, progress,
                   result, ui, attempts, pureVars>>
    /\ IF ~BindsArguments(kwargs)
       THEN /\ pc' = "Failed"
            /\ failure' = Raise("Initializing", "TypeError", 0)
            /\ UNCHANGED files
       ELSE \E written \in 0..Len(ScaffoldingFiles) :
               /\ files' = WriteScaffolding(files, written)
               /\ IF written = Len(ScaffoldingFiles)
                  THEN pc' = "Extracting" /\ UNCHANGED failure
                  ELSE /\ pc' = "Failed"
                       /\ failure' = Raise("Initializing", "OSError", 0)

(***************************************************************************)
(* src/src/website_generator.py: generate_website_files.                   *)
(***************************************************************************)
\* lines 190-202: the arguments are bound (TypeError when they do not fit the
\* signature), the old tree is removed and the scaffolding files are written;
\* a write that fails raises, after the files before it were written
SetUpProjectDirectory ==
    /\ pc = "Initializing"
    /\ UNCHANGED <<caller, desc, kwargs, site_data, step, calls, progress,
                   result, ui, attempts, pureVars>>
    /\ IF ~BindsArguments(kwargs)
       THEN /\ pc' = "Failed"
            /\ failure' = Raise("Initializing", "TypeError", 0)
            /\ UNCHANGED files
       ELSE \E written \in 0..Len(ScaffoldingFiles) :
               /\ files' = WriteScaffolding(NoFiles, written)
               /\ IF written = Len(ScaffoldingFiles)
                  THEN pc' = "Extracting" /\ UNCHANGED failure
                  ELSE /\ pc' = "Failed"
                       /\ failure' = Raise("Initializing", "OSError", 0)

\* lines 204-212: one call_gemini call, extract_json_from_string, ValueError
\* when the value is false
ExtractStructuredData ==
    /\ pc = "Extracting"
    /\ UNCHANGED <<caller, desc, kwargs, files, step, progress, result, ui, pureVars>>
    /\ calls' = Append(calls,
           Call("extraction",
                Format("DATA_EXTRACTION_PROMPT", [description |-> kwargs.user_prompt]),
                "You are a data analyst"))
    /\ attempts' \in 1..MaxAttempts
    /\ \/ \* call_gemini raises
          /\ pc' = "Failed"
          /\ failure' = Raise("Extracting", "ServiceError", 0)
          /\ UNCHANGED site_data
       \/ \E site_data_raw \in ExtractionTexts :
             /\ site_data' = extract_json_from_string(site_data_raw)
             /\ IF ~Truthy(site_data')
                THEN /\ pc' = "Failed"
                     /\ failure' = Raise("Extracting", "ValueError", 0)
                ELSE pc' = "Persisting" /\ UNCHANGED failure

\* lines 214-217: the data is written to src/data/products.json
PersistSiteData ==
    /\ pc = "Persisting"
    /\ UNCHANGED <<caller, desc, kwargs, site_data, calls, progress, result, ui,
                   attempts, pureVars>>
    /\ \/ /\ files' = WriteFile(files, ProductsJson, json_dumps(site_data, "2"))
          /\ pc' = "Generating"
          /\ step' = 1
          /\ UNCHANGED failure
       \/ \* write_file_wrapper raises
          /\ pc' = "Failed"
          /\ failure' = Raise("Persisting", "OSError", 0)
          /\ UNCHANGED <<files, step>>

\* bindings whose site_data is the component data, not the site data
StepBindingsComponentData(data, name) ==
    [site_data      |-> json_dumps(EmptyDict, "None"),
     component_name |-> name,
     page_name      |-> name,
     design_system  |-> json_dumps(DictGet(data, "designSystem", EmptyDict), "None"),
     component_data |-> json_dumps(EmptyDict, "None")]

\* lines 230-236: the bindings generate_and_write_code gives the template
StepBindings(data, name) ==
    [site_data      |-> json_dumps(data, "None"),
     component_name |-> name,
     page_name      |-> name,
     design_system  |-> json_dumps(DictGet(data, "designSystem", EmptyDict), "None"),
     component_data |-> json_dumps(EmptyDict, "None")]

\* lines 238-240: the tsx block of the answer, the css block when that is
\* empty and the file is a stylesheet
CodeContent(code_raw, file_sub_path) ==
    LET code_content == extract_code_from_string(code_raw, TSX)
    IN  IF code_content = <<>> /\ HasCss(file_sub_path)
        THEN extract_code_from_string(code_raw, CSS)
        ELSE code_content

\* lines 222-243, called in the order of lines 245-282: one generation step
generate_and_write_code ==
    /\ pc = "Generating"
    /\ step \in 1..NSteps
    /\ UNCHANGED <<caller, desc, kwargs, site_data, progress, result, ui, pureVars>>
    /\ LET s == Catalog[step]
       IN  /\ calls' = Append(calls,
                  Call(s.name,
                       Format(s.template, StepBindings(site_data, s.name)),
                       s.system_prompt))
           /\ attempts' \in 1..MaxAttempts
           /\ \/ \* call_gemini raises
                 /\ pc' = "Failed"
                 /\ failure' = Raise("Generating", "ServiceError", step)
                 /\ UNCHANGED <<files, step>>
              \/ \E code_raw \in GenerationTexts :
                    \/ /\ files' = WriteFile(files, s.path,
                                        [text |-> CodeContent(code_raw, s.path)])
                       /\ step' = step + 1
                       /\ pc' = IF step = NSteps THEN "Finalizing" ELSE "Generating"
                       /\ UNCHANGED failure
                    \/ \* write_file_wrapper raises
                       /\ pc' = "Failed"
                       /\ failure' = Raise("Generating", "OSError", step)
                       /\ UNCHANGED <<files, step>>

\* the same with an npm install that never returns
ReturnOutputDirectoryWaiting ==
    /\ pc = "Finalizing"
    /\ UNCHANGED <<caller, desc, kwargs, site_data, step, calls, progress, ui,
                   attempts, pureVars, failure, result, pc>>
    /\ files' = WriteFile(files, "package.json",
                    [scaffold |-> "package.json", dependencies |-> "common"])

\* the same with every error of _install_dependencies swallowed
ReturnOutputDirectoryAlways ==
    /\ pc = "Finalizing"
    /\ UNCHANGED <<caller, desc, kwargs, site_data, step, calls, progress, ui,
                   attempts, pureVars, failure>>
    /\ files' = WriteFile(files, "package.json",
                    [scaffold |-> "package.json", dependencies |-> "common"])
    /\ pc' = "Done"
    /\ result' = [output_dir |-> generated_website_dir]

\* lines 148-188 and 284-290: _install_dependencies rewrites package.json and
\* runs npm install, then the directory name is returned. A failing npm
\* install is caught, and the handler raises AttributeError on e.stdout, which
\* is None; a missing npm raises FileNotFoundError
ReturnOutputDirectory ==
    /\ pc = "Finalizing"
    /\ UNCHANGED <<caller, desc, kwargs, site_data, step, calls, progress, ui,
                   attempts, pureVars>>
    /\ files' = WriteFile(files, "package.json",
                    [scaffold |-> "package.json", dependencies |-> "common"])
    /\ \/ /\ pc' = "Done"
          /\ result' = [output_dir |-> generated_website_dir]
          /\ UNCHANGED failure
       \/ \E cause \in {"AttributeError", "FileNotFoundError"} :
             /\ pc' = "Failed"
             /\ failure' = Raise("Finalizing", cause, 0)
             /\ UNCHANGED result

Next ==
    \/ MainGenerateClicked
    \/ MainShowsOutcome
    \/ SetUpProjectDirectory
    \/ ExtractStructuredData
    \/ PersistSiteData
    \/ generate_and_write_code
    \/ ReturnOutputDirectory

Spec == Init /\ [][Next]_vars

(***************************************************************************)
(* The claims about the run.                                               *)
(***************************************************************************)
\* the generation calls made so far, in order
GenerationCalls == SelectSeq(calls, LAMBDA c : c.purpose # "extraction")

\* how many times call_gemini was invoked for the step called name
CallsFor(name) == Cardinality({k \in 1..Len(calls) : calls[k].purpose = name})

\* the generation steps that returned in this run
FinishedSteps == IF step = 0 THEN {} ELSE 1..(step - 1)

\* C1: a generation step whose call_gemini call fails is called once more with
\* the same prompt before it counts as failed: a step is failed only after
\* exactly two invocations, and no step has more than two.
C1_RetryOnce ==
    /\ \A i \in 1..NSteps : CallsFor(Catalog[i].name) <= 2
    /\ (failure.state = "Generating" /\ failure.cause = "ServiceError")
           => CallsFor(Catalog[failure.step].name) = 2

\* C2: a Completion Client failure in one generation step does not end the
\* run: the run is never failed by the ServiceError of a generation step.
C2_PartialFailure ==
    ~(pc = "Failed" /\ failure.state = "Generating" /\ failure.cause = "ServiceError")

\* C3: the result of a run that returned reports the total, the succeeded
\* count and the failed artifacts; every step is counted once, and a step
\* whose artifact came out empty is in the failure list.
C3_FinalReport ==
    pc = "Done" =>
        /\ {"total", "succeeded", "failed"} \subseteq DOMAIN result
        /\ result.total = NSteps
        /\ result.succeeded + Cardinality(result.failed) = NSteps
        /\ \A i \in 1..NSteps :
              files[Catalog[i].path].text = <<>> => Catalog[i].name \in result.failed

\* C4: when extraction fails (nothing located, nothing parsed, or the Schema
\* not satisfied) no generation call is made and products.json is not
\* written: a generation call or a products.json implies valid site data.
C4_ExtractionFatal ==
    /\ GenerationCalls # <<>> => SiteDataValid(site_data)
    /\ ProductsJson \in DOMAIN files => SiteDataValid(files[ProductsJson].json)

\* C5: a step whose normalized content is empty writes the raw response to
\* the sidecar and nothing to the intended path: no artifact of a finished
\* step is empty.
C5_NoEmptyArtifact ==
    \A i \in FinishedSteps :
        Catalog[i].path \in DOMAIN files => files[Catalog[i].path].text # <<>>

\* the catalog order the specification gives
ExpectedOrder ==
    <<"Navbar", "Footer", "ProductCard", "ContactForm",
      "homepage", "products", "about", "gallery", "contact",
      "RootLayout", "GlobalsCSS">>

ExpectedPaths ==
    <<"src/components/Navbar.tsx", "src/components/Footer.tsx",
      "src/components/ProductCard.tsx", "src/components/ContactForm.tsx",
      "src/app/page.tsx", "src/app/products/page.tsx", "src/app/about/page.tsx",
      "src/app/gallery/page.tsx", "src/app/contact/page.tsx",
      "src/app/layout.tsx", "src/app/globals.css">>

\* C6: the generation steps are executed in the catalog order, components,
\* pages, layout, stylesheet: the k-th generation call is for the k-th step
\* of that order and is made when the artifacts of all steps before it are
\* written, and a run that reaches the end has executed every step once.
C6_CatalogOrder ==
    /\ Len(GenerationCalls) <= Len(ExpectedOrder)
    /\ \A k \in 1..Len(GenerationCalls) :
          /\ GenerationCalls[k].purpose = ExpectedOrder[k]
          /\ \A j \in 1..(k - 1) : ExpectedPaths[j] \in DOMAIN files
    /\ pc \in {"Finalizing", "Done"} =>
          /\ Len(GenerationCalls) = Len(ExpectedOrder)
          /\ \A j \in 1..Len(ExpectedPaths) : ExpectedPaths[j] \in DOMAIN files

\* a run returned after all its steps
C6_Witness == pc = "Done" /\ Len(GenerationCalls) = Len(ExpectedOrder)

\* C7: products.json holds the extracted site data before the first
\* generation call is made, and the site data bound in every generation
\* prompt is the persisted one.
C7_PersistedData ==
    \A k \in 1..Len(GenerationCalls) :
        LET slots == GenerationCalls[k].prompt.slots
        IN  /\ ProductsJson \in DOMAIN files
            /\ files[ProductsJson].json = site_data
            /\ "site_data" \in DOMAIN slots
                   => slots.site_data.json = files[ProductsJson].json
            /\ "design_system" \in DOMAIN slots
                   => slots.design_system.json =
                          DictGet(files[ProductsJson].json, "designSystem", EmptyDict)

\* the stylesheet step, the last one, was called
C7_Witness ==
    /\ Len(GenerationCalls) = NSteps
    /\ "site_data" \in DOMAIN GenerationCalls[1].prompt.slots
    /\ "design_system" \in DOMAIN GenerationCalls[NSteps].prompt.slots

\* C8: a run that is given a progress sink performs the same steps as one
\* without, and invokes the sink once after every step with
\* (1, N, ..), (2, N, ..), ..: the sink does not fail the run, and after k
\* steps it was invoked k times.
C8_ProgressSink ==
    "progress_callback" \in DOMAIN kwargs =>
        /\ failure.cause # "TypeError"
        /\ Len(progress) = Cardinality(FinishedSteps)
        /\ \A k \in 1..Len(progress) :
              progress[k].current_step = k /\ progress[k].total_steps = NSteps

RunStates ==
    {"Initializing", "Extracting", "Persisting", "Generating", "Finalizing",
     "Done", "Failed"}

Terminal == {"Done", "Failed"}

\* the place of a state in Initializing, Extracting, Persisting,
\* Generating(1), .., Generating(N), Finalizing, Done
Rank(p, i) ==
    CASE p = "Initializing" -> 1
      [] p = "Extracting"   -> 2
      [] p = "Persisting"   -> 3
      [] p = "Generating"   -> 3 + i
      [] p = "Finalizing"   -> 4 + Len(ExpectedOrder)
      [] p = "Done"         -> 5 + Len(ExpectedOrder)
      [] OTHER              -> 0

\* a step of the run that raises
FailingStep == Next /\ pc' = "Failed"

\* C9: a run goes through Initializing, Extracting, Persisting,
\* Generating(1..N), Finalizing, Done in that order, one state at a time;
\* Failed can be entered from every state that is not terminal; nothing
\* leaves Done or Failed.
C9_StateMachine ==
    /\ [][(pc \in RunStates \ Terminal /\ <<pc, step>>' # <<pc, step>>)
             => (pc' = "Failed" \/ Rank(pc', step') = Rank(pc, step) + 1)]_vars
    /\ [][(pc \in Terminal) => (pc' = pc /\ step' = step)]_vars
    /\ [](pc \in RunStates \ Terminal => ENABLED FailingStep)

\* a run went through every state to Done
C9_Witness == pc = "Done" /\ step = NSteps + 1 /\ caller = "direct"

(***************************************************************************)
(* SpecNorm: extract_code_from_string applied to a bounded text, and then  *)
(* to its own result.                                                      *)
(***************************************************************************)
\* the pieces the texts of SpecNorm are made of
Chunks == {Fence, TSX, CSS, <<" ">>, <<"\n">>, <<"a">>, <<Backtick>>, <<"1">>}

Languages == {TSX, CSS}

RECURSIVE Flatten(_)
Flatten(cs) == IF cs = <<>> THEN <<>> ELSE Head(cs) \o Flatten(Tail(cs))

\* the texts made of at most max pieces
ChunkTexts(max) == {Flatten(cs) : cs \in UNION {[1..n -> Chunks] : n \in 0..max}}

InitNorm ==
    /\ nText \in ChunkTexts(MaxChunks)
    /\ nLang \in Languages
    /\ nOut = <<>>
    /\ nStage = 0
    /\ caller = "direct"
    /\ desc = <<>>
    /\ kwargs = <<>>
    /\ pc = "normalizer"
    /\ files = NoFiles
    /\ site_data = None
    /\ step = 0
    /\ calls = <<>>
    /\ progress = <<>>
    /\ result = NoResult
    /\ failure = NoFailure
    /\ ui = "none"
    /\ attempts = 0
    /\ JsonIdle
    /\ SchemaIdle
    /\ TemplatesIdle
    /\ PreviewIdle

\* the caller normalizes the text
NormalizeText ==
    /\ nStage = 0
    /\ nOut' = <<extract_code_from_string(nText, nLang)>>
    /\ nStage' = 1
    /\ UNCHANGED <<nText, nLang, runVars, jsonVars, schemaVars, templateVars,
                   previewVars>>

\* the caller normalizes the result again
NormalizeAgain ==
    /\ nStage = 1
    /\ nOut' = Append(nOut, extract_code_from_string(nOut[1], nLang))
    /\ nStage' = 2
    /\ UNCHANGED <<nText, nLang, runVars, jsonVars, schemaVars, templateVars,
                   previewVars>>

NextNorm == NormalizeText \/ NormalizeAgain

SpecNorm == InitNorm /\ [][NextNorm]_vars

\* C10: extract_code_from_string is idempotent for every text and language
\* tag: normalizing a normalized text returns it unchanged; a text with no
\* fence and no surrounding whitespace is returned as it is.
C10_Idempotent ==
    /\ nStage = 2 => nOut[2] = nOut[1]
    /\ (nStage >= 1 /\ Find(nText, Fence, 1) = 0 /\ Strip(nText) = nText)
           => nOut[1] = nText

\* a fenced text whose first result differs from the text was normalized twice
C10_Witness ==
    /\ nStage = 2
    /\ FenceSearch(nText, nLang).matched
    /\ nOut[1] # <<>>
    /\ nOut[1] # nText

\* the characters of the texts
TextChars == UNION {{c[i] : i \in 1..Len(c)} : c \in Chunks}

\* an opening fence tagged tsx, a newline and the closing fence
EmptyFencedBlock == Fence \o TSX \o <<"\n">> \o Fence

\* s is made of whitespace and of fences only: every maximal run of backticks
\* is a whole number of fences
OnlyFences(s) ==
    /\ \A i \in 1..Len(s) : s[i] \in Whitespace \cup {Backtick}
    /\ \A a \in 1..Len(s) : \A b \in a..Len(s) :
           ( /\ \A i \in a..b : s[i] = Backtick
             /\ (a = 1 \/ s[a - 1] # Backtick)
             /\ (b = Len(s) \/ s[b + 1] # Backtick) )
           => (b - a + 1) % Len(Fence) = 0

\* C11: extract_code_from_string is total: for every text and language tag it
\* returns a trimmed text, and it returns the empty text when the input holds
\* nothing but fences and whitespace, in particular for an opening tsx fence,
\* a newline and the closing fence.
C11_Total ==
    nStage >= 1 =>
        /\ DOMAIN nOut[1] = 1..Len(nOut[1])
        /\ \A i \in 1..Len(nOut[1]) : nOut[1][i] \in TextChars
        /\ Strip(nOut[1]) = nOut[1]
        /\ (OnlyFences(nText) => nOut[1] = <<>>)
        /\ ((nText = EmptyFencedBlock /\ nLang = TSX) => nOut[1] = <<>>)

\* the empty fenced block was normalized to the empty text
C11_Witness ==
    /\ nStage >= 1
    /\ nText = EmptyFencedBlock
    /\ nLang = TSX
    /\ nOut[1] = <<>>

(***************************************************************************)
(* SpecJson: extract_json_from_string applied to a bounded text.           *)
(***************************************************************************)
\* the pieces the texts of SpecJson are made of: the tagged fence, the bare
\* fence, the braces, a complete object, whitespace and a letter
JsonChunks ==
    {Fence \o JSON, Fence, <<"{">>, <<"}">>, <<"{", "4", "}">>, <<" ">>, <<"a">>}

\* the texts made of at most max pieces
JsonChunkTexts(max) ==
    {Flatten(cs) : cs \in UNION {[1..n -> JsonChunks] : n \in 0..max}}

InitJson ==
    /\ jText \in JsonChunkTexts(MaxJsonChunks)
    /\ jOut = <<>>
    /\ RunIdle
    /\ NormIdle
    /\ SchemaIdle
    /\ TemplatesIdle
    /\ PreviewIdle

\* the caller hands the completion to extract_json_from_string
ExtractJson ==
    /\ jOut = <<>>
    /\ jOut' = <<extract_json_from_string(jText)>>
    /\ UNCHANGED <<jText, runVars, normVars, schemaVars, templateVars,
                   previewVars>>

NextJson == ExtractJson

SpecJson == InitJson /\ [][NextJson]_vars

\* the positions of s where a fence tagged json opens a block: a fence
\* follows later
JsonBlockOpenings(s) ==
    {i \in 1..Len(s) :
        /\ StartsAt(s, i, Fence \o JSON)
        /\ \E k \in (i + Len(Fence \o JSON))..Len(s) : StartsAt(s, k, Fence)}

Min(S) == CHOOSE m \in S : \A n \in S : m <= n

Max(S) == CHOOSE m \in S : \A n \in S : m >= n

\* the content of the first block tagged json, without the whitespace around
BlockContent(s) ==
    LET open  == Min(JsonBlockOpenings(s)) + Len(Fence \o JSON)
        close == Min({k \in open..Len(s) : StartsAt(s, k, Fence)})
    IN  Strip(SubSeq(s, open, close - 1))

Positions(s, c) == {i \in 1..Len(s) : s[i] = c}

\* the text from the first opening brace to the last closing brace
BraceSpan(s) ==
    IF Positions(s, "{") # {} /\ Positions(s, "}") # {}
    THEN SubSeq(s, Min(Positions(s, "{")), Max(Positions(s, "}")))
    ELSE <<>>

\* the parse of a located text, None when there is none or it does not parse
ParseOf(located) ==
    IF json_loads(located).ok THEN json_loads(located).value ELSE None

\* C12: extract_json_from_string takes the content of the first fenced block
\* tagged json when the text holds one, and otherwise the text from the first
\* opening brace to the last closing brace; what it returns is the parse of
\* that text.
C12_LocatedJson ==
    jOut # <<>> =>
        jOut[1] = IF JsonBlockOpenings(jText) # {}
                  THEN ParseOf(BlockContent(jText))
                  ELSE ParseOf(BraceSpan(jText))

\* the object of a fenced block was returned although the text from the
\* first to the last brace is a different text, which does not parse
C12_Witness ==
    /\ jOut # <<>>
    /\ JsonBlockOpenings(jText) # {}
    /\ jOut[1] = FullSite
    /\ BraceSpan(jText) # BlockContent(jText)
    /\ ParseOf(BraceSpan(jText)) = None

(***************************************************************************)
(* Claims about the extraction step of a run (Spec).                       *)
(***************************************************************************)
\* the states of a run after the extraction step returned site data
AfterExtraction == {"Persisting", "Generating", "Finalizing", "Done"}

\* C13: the extraction step fails when no JSON object is located and fails
\* with a validation error when the located object violates the Schema: the
\* site data it hands on satisfies the Schema, and a run that failed in the
\* extraction step returned nothing.
C13_ExtractionErrors ==
    /\ pc \in AfterExtraction => SiteDataValid(site_data)
    /\ (pc = "Failed" /\ failure.state = "Extracting") => result = NoResult

(***************************************************************************)
(* src/src/models.py: the pydantic models.                                 *)
(*                                                                         *)
(* An object given to a model is a function from the names of the fields   *)
(* it supplies to their values; a value carries its JSON type.             *)
(***************************************************************************)
Str(v) == [type |-> "str", value |-> v]

\* a JSON number
Number == [type |-> "int", value |-> "0"]

\* a value of one of the nested models, valid for that model
Nested(model) == [type |-> "object", value |-> model]

\* class Product: six fields, each a required str
ProductFields == {"id", "name", "description", "price", "category", "imageUrl"}

\* class GalleryItem: four fields, each a required str
GalleryItemFields == {"id", "name", "description", "imageUrl"}

\* a model whose fields are all `str = Field(description=...)` accepts o
ValidatesFields(o, fields) ==
    /\ fields \subseteq DOMAIN o
    /\ \A f \in fields : o[f].type = "str"

\* Product with imageUrl not required
ProductValidWithoutImage(o) == ValidatesFields(o, ProductFields \ {"imageUrl"})

\* Product(**o) accepts o
ProductValid(o) == ValidatesFields(o, ProductFields)

\* GalleryItem(**o) accepts o
GalleryItemValid(o) == ValidatesFields(o, GalleryItemFields)

\* SiteData without the min_length of its two lists
SiteDataAcceptsAnyLength(v) ==
    /\ RequiredKeys \subseteq DOMAIN v.items
    /\ \A i \in 1..Len(v.items.products) : ProductValid(v.items.products[i])
    /\ \A i \in 1..Len(v.items.galleryItems) :
           GalleryItemValid(v.items.galleryItems[i])
    /\ \A k \in RequiredKeys \ {"products", "galleryItems"} :
           v.items[k] = Nested(k)

\* SiteData.model_validate(v) accepts v: the six fields are required, the two
\* lists have a min_length and their members are validated by their models
SiteDataAccepts(v) ==
    /\ RequiredKeys \subseteq DOMAIN v.items
    /\ Len(v.items.products) >= MinProducts
    /\ \A i \in 1..Len(v.items.products) : ProductValid(v.items.products[i])
    /\ Len(v.items.galleryItems) >= MinGalleryItems
    /\ \A i \in 1..Len(v.items.galleryItems) :
           GalleryItemValid(v.items.galleryItems[i])
    /\ \A k \in RequiredKeys \ {"products", "galleryItems"} :
           v.items[k] = Nested(k)

(***************************************************************************)
(* SpecSchema: an object is given to Product or to SiteData.               *)
(***************************************************************************)
\* the objects given to Product: any of the fields, as a string or a number
ProductCandidates == UNION {[fs -> {Str("v"), Number}] : fs \in SUBSET ProductFields}

AProduct(id) == [f \in ProductFields |-> IF f = "id" THEN Str(id) ELSE Str(f)]

\* test_model_validation's product with missing fields
IncompleteProduct == [id |-> Str("test"), name |-> Str("Test")]

ProductSamples == {AProduct(id) : id \in {"p1", "p2", "p3", "p4"}} \cup {IncompleteProduct}

\* the lists of at most max products
ProductLists(max) == UNION {[1..n -> ProductSamples] : n \in 0..max}

GalleryIds == <<"g1", "g2", "g3", "g4", "g5", "g6", "g7", "g8", "g9">>

AGalleryItem(id) == [f \in GalleryItemFields |-> IF f = "id" THEN Str(id) ELSE Str(f)]

\* n gallery items with distinct ids, or with the last one repeating the first
GalleryList(n, repeat) ==
    [i \in 1..n |-> AGalleryItem(IF repeat /\ i = n THEN GalleryIds[1] ELSE GalleryIds[i])]

\* the lists of at most max gallery items
GalleryLists(max) == {GalleryList(n, repeat) : n \in 0..max, repeat \in BOOLEAN}

\* the objects given to SiteData: all six keys or all but navigation
SiteCandidates(maxProducts, maxGalleryItems) ==
    { Dict([k \in keys |-> CASE k = "products" -> ps
                             [] k = "galleryItems" -> gs
                             [] OTHER -> Nested(k)]) :
        keys \in {RequiredKeys, RequiredKeys \ {"navigation"}},
        ps \in ProductLists(maxProducts), gs \in GalleryLists(maxGalleryItems) }

InitSchema ==
    /\ \/ mModel = "Product" /\ mInput \in ProductCandidates
       \/ mModel = "SiteData" /\ mInput \in SiteCandidates(MaxProducts,
                                                          MaxGalleryItems)
    /\ mVerdict = "none"
    /\ RunIdle
    /\ NormIdle
    /\ JsonIdle
    /\ TemplatesIdle
    /\ PreviewIdle

\* Product(**mInput)
ValidateProduct ==
    /\ mModel = "Product"
    /\ mVerdict = "none"
    /\ mVerdict' = IF ProductValid(mInput) THEN "accepted" ELSE "ValidationError"
    /\ UNCHANGED <<mModel, mInput, runVars, normVars, jsonVars, templateVars,
                   previewVars>>

\* SiteData.model_validate(mInput)
ValidateSiteData ==
    /\ mModel = "SiteData"
    /\ mVerdict = "none"
    /\ mVerdict' = IF SiteDataAccepts(mInput) THEN "accepted" ELSE "ValidationError"
    /\ UNCHANGED <<mModel, mInput, runVars, normVars, jsonVars, templateVars,
                   previewVars>>

NextSchema == ValidateProduct \/ ValidateSiteData

SpecSchema == InitSchema /\ [][NextSchema]_vars

\* every field of the object other than the length of its two lists is valid
OtherFieldsValid(v) ==
    /\ DOMAIN v.items = RequiredKeys
    /\ \A i \in 1..Len(v.items.products) :
           /\ DOMAIN v.items.products[i] = ProductFields
           /\ \A f \in ProductFields : v.items.products[i][f].type = "str"
    /\ \A i \in 1..Len(v.items.galleryItems) :
           /\ DOMAIN v.items.galleryItems[i] = GalleryItemFields
           /\ \A f \in GalleryItemFields : v.items.galleryItems[i][f].type = "str"

\* C14: a SiteData object whose other fields are valid is accepted exactly
\* when it holds at least 4 products and at least 6 gallery items: 2 products
\* are rejected, exactly 4 products with 6 gallery items are accepted.
C14_Cardinality ==
    (mModel = "SiteData" /\ mVerdict # "none" /\ OtherFieldsValid(mInput)) =>
        /\ mVerdict = "accepted" <=>
               (Len(mInput.items.products) >= 4 /\ Len(mInput.items.galleryItems) >= 6)
        /\ Len(mInput.items.products) = 2 => mVerdict = "ValidationError"

\* exactly 4 products and 6 gallery items were accepted
C14_Witness ==
    /\ mModel = "SiteData"
    /\ OtherFieldsValid(mInput)
    /\ Len(mInput.items.products) = 4
    /\ Len(mInput.items.galleryItems) = 6
    /\ mVerdict = "accepted"

\* C15: a Product object that lacks one or more of id, name, description,
\* price, category and imageUrl is rejected with a ValidationError; an object
\* that supplies all six as strings is accepted.
C15_RequiredFields ==
    (mModel = "Product" /\ mVerdict # "none") =>
        /\ (\E f \in {"id", "name", "description", "price", "category", "imageUrl"} :
                f \notin DOMAIN mInput) => mVerdict = "ValidationError"
        /\ (\A f \in {"id", "name", "description", "price", "category", "imageUrl"} :
                f \in DOMAIN mInput /\ mInput[f].type = "str") => mVerdict = "accepted"

\* an object with only id and name was rejected
C15_Witness ==
    /\ mModel = "Product"
    /\ DOMAIN mInput = {"id", "name"}
    /\ \A f \in DOMAIN mInput : mInput[f].type = "str"
    /\ mVerdict = "ValidationError"

\* the ids of a list of objects are pairwise distinct
DistinctIds(list) ==
    \A i \in 1..Len(list) : \A j \in 1..Len(list) :
        i # j => list[i].id # list[j].id

\* C20: every object SiteData accepts has pairwise distinct ids within its
\* products and within its galleryItems.
C20_UniqueIds ==
    (mModel = "SiteData" /\ mVerdict = "accepted") =>
        /\ DistinctIds(mInput.items.products)
        /\ DistinctIds(mInput.items.galleryItems)

(***************************************************************************)
(* src/src/langchain_prompts.py and src/src/prompts.py: the templates.     *)
(*                                                                         *)
(* A template is the sequence of its pieces: literal text, a {name}        *)
(* placeholder, or an escaped brace ({{ or }}).  A literal text is named   *)
(* by the lines of the source it stands for.                               *)
(***************************************************************************)
Text(t) == [kind |-> "text", text |-> t]

Slot(name) == [kind |-> "slot", name |-> name]

Escape(brace) == [kind |-> "escape", text |-> brace]

\* one schema line of DATA_EXTRACTION_TEMPLATE: its field list stands between
\* escaped braces (one pair is modelled for each line)
SchemaLine(key, fields) == <<Text(key), Escape("{"), Text(fields), Escape("}")>>

Templates ==
    [data_extraction_prompt |->
         <<Text("6-8"), Slot("description"), Text("8-12")>>
         \o SchemaLine("13 artisanInfo", "13 name .. phone")
         \o SchemaLine("14 products", "14 id .. imageUrl")
         \o SchemaLine("15 galleryItems", "15 id .. imageUrl")
         \o SchemaLine("16 navigation", "16 menuItems .. socialLinks")
         \o SchemaLine("17 designSystem", "17 colorPalette .. logo")
         \o SchemaLine("18 siteSettings", "18 title .. ogImage")
         \o <<Text("19-30")>>,
     component_generation_prompt |->
         <<Text("42-44"), Slot("component_name"), Text("44-65"),
           Slot("site_data"), Text("67-68"), Slot("component_name"), Text("68-69")>>,
     page_generation_prompt |->
         <<Text("80-82"), Slot("page_name"), Text("82-100"),
           Slot("site_data"), Text("102-103"), Slot("page_name"), Text("103-104")>>,
     layout_generation_prompt |->
         <<Text("115-135"), Slot("site_data"), Text("136-137")>>,
     css_generation_prompt |->
         <<Text("148-166"), Slot("design_system"), Text("167-168")>>,
     DATA_EXTRACTION_PROMPT |->
         <<Text("8-14"), Slot("description"), Text("16-40")>>,
     REACT_COMPONENT_PROMPT |->
         <<Text("43-48"), Slot("site_data"), Text("50-52"), Slot("component_name"),
           Text("53"), Slot("component_data"), Text("54-66")>>,
     REACT_PAGE_PROMPT |->
         <<Text("69-74"), Slot("site_data"), Text("76-78"), Slot("page_name"),
           Text("79-88")>>,
     LAYOUT_PROMPT |->
         <<Text("91-95"), Slot("site_data"), Text("97-105"), Escape("{"),
           Text("Metadata"), Escape("}"), Text("105-108")>>,
     GLOBALS_CSS_PROMPT |->
         <<Text("111-115"), Slot("design_system"), Text("117-126")>>]

\* PromptTemplate(input_variables=[...]) of src/src/langchain_prompts.py
input_variables ==
    [data_extraction_prompt      |-> {"description"},
     component_generation_prompt |-> {"component_name", "site_data"},
     page_generation_prompt      |-> {"page_name", "site_data"},
     layout_generation_prompt    |-> {"site_data"},
     css_generation_prompt       |-> {"design_system"}]

\* one piece of a template, rendered with binding names -> values
RenderPiece(piece, bindings) ==
    CASE piece.kind = "slot"   -> Text(bindings[piece.name])
      [] piece.kind = "escape" -> Text(piece.text)
      [] OTHER                 -> piece

\* a formatter that renders a placeholder without binding as the empty text
RenderLenient(template, bindings) ==
    [ok     |-> TRUE,
     prompt |-> [i \in 1..Len(template) |->
                    IF template[i].kind = "slot" /\ template[i].name \notin DOMAIN bindings
                    THEN Text("")
                    ELSE RenderPiece(template[i], bindings)]]

\* a formatter that fills every placeholder with the binding of the first one
RenderFirstBinding(template, bindings) ==
    LET first == CHOOSE i \in 1..Len(template) :
                     /\ template[i].kind = "slot"
                     /\ \A j \in 1..(i - 1) : template[j].kind # "slot"
    IN  IF \E i \in 1..Len(template) :
               template[i].kind = "slot" /\ template[i].name \notin DOMAIN bindings
        THEN [ok |-> FALSE, error |-> "KeyError"]
        ELSE [ok     |-> TRUE,
              prompt |-> [i \in 1..Len(template) |->
                             IF template[i].kind = "slot"
                             THEN Text(bindings[template[first].name])
                             ELSE RenderPiece(template[i], bindings)]]

\* template.format(**bindings), of str and of PromptTemplate: KeyError when a
\* placeholder has no binding, else the text with every placeholder replaced
\* by its binding and every escaped brace by the brace; bindings without
\* placeholder are ignored
Render(template, bindings) ==
    IF \E i \in 1..Len(template) :
           template[i].kind = "slot" /\ template[i].name \notin DOMAIN bindings
    THEN [ok |-> FALSE, error |-> "KeyError"]
    ELSE [ok     |-> TRUE,
          prompt |-> [i \in 1..Len(template) |-> RenderPiece(template[i], bindings)]]

(***************************************************************************)
(* SpecTemplates: a template is rendered with some bindings.               *)
(***************************************************************************)
BindingNames ==
    {"description", "site_data", "component_name", "page_name", "design_system",
     "component_data"}

\* a bound value is a text; braces in it are not read as placeholders
BindingValues == {"I am a test artisan", "{x}"}

InitTemplates ==
    /\ tTemplate \in DOMAIN Templates
    /\ tBindings \in UNION {[names -> BindingValues] : names \in SUBSET BindingNames}
    /\ tOut = <<>>
    /\ RunIdle
    /\ NormIdle
    /\ JsonIdle
    /\ SchemaIdle
    /\ PreviewIdle

\* <PromptTemplate>.format(**tBindings)
FormatPromptTemplate ==
    /\ tTemplate \in DOMAIN input_variables
    /\ tOut = <<>>
    /\ tOut' = <<Render(Templates[tTemplate], tBindings)>>
    /\ UNCHANGED <<tTemplate, tBindings, runVars, normVars, jsonVars, schemaVars,
                   previewVars>>

\* <str>.format(**tBindings)
FormatString ==
    /\ tTemplate \in DOMAIN Placeholders
    /\ tOut = <<>>
    /\ tOut' = <<Render(Templates[tTemplate], tBindings)>>
    /\ UNCHANGED <<tTemplate, tBindings, runVars, normVars, jsonVars, schemaVars,
                   previewVars>>

NextTemplates == FormatPromptTemplate \/ FormatString

SpecTemplates == InitTemplates /\ [][NextTemplates]_vars

\* the binding names a template declares as required
Declared(name) ==
    IF name \in DOMAIN input_variables THEN input_variables[name]
    ELSE Placeholders[name]

\* C16: rendering a template while one of its declared bindings is missing
\* fails and yields no prompt, and a rendering that succeeds leaves no
\* placeholder unfilled, for each of the templates.
C16_MissingBinding ==
    tOut # <<>> =>
        /\ (\E name \in Declared(tTemplate) : name \notin DOMAIN tBindings)
               => (~tOut[1].ok /\ "prompt" \notin DOMAIN tOut[1])
        /\ tOut[1].ok =>
               \A i \in 1..Len(tOut[1].prompt) : tOut[1].prompt[i].kind = "text"

\* the component template was rendered without site_data and failed
C16_Witness ==
    /\ tOut # <<>>
    /\ tTemplate = "component_generation_prompt"
    /\ DOMAIN tBindings = {"component_name"}
    /\ ~tOut[1].ok

\* C17: rendering a template with all its declared bindings succeeds; in the
\* prompt every placeholder is replaced by its bound value, so every bound
\* value of a declared binding occurs in it, and the text around the
\* placeholders is that of the template.
C17_RenderedPrompt ==
    (tOut # <<>> /\ Declared(tTemplate) \subseteq DOMAIN tBindings) =>
        LET template == Templates[tTemplate]
            prompt   == tOut[1].prompt
        IN  /\ tOut[1].ok
            /\ Len(prompt) = Len(template)
            /\ \A i \in 1..Len(template) :
                   IF template[i].kind = "slot"
                   THEN prompt[i] = Text(tBindings[template[i].name])
                   ELSE prompt[i].text = template[i].text
            /\ \A name \in Declared(tTemplate) :
                   \E i \in 1..Len(prompt) : prompt[i] = Text(tBindings[name])

\* test_prompt_templates: the component template was rendered with two
\* different values and both occur in the prompt
C17_Witness ==
    /\ tOut # <<>>
    /\ tTemplate = "component_generation_prompt"
    /\ DOMAIN tBindings = {"component_name", "site_data"}
    /\ tBindings.component_name # tBindings.site_data
    /\ tOut[1].ok
    /\ \E i \in 1..Len(tOut[1].prompt) :
           tOut[1].prompt[i] = Text(tBindings.component_name)

(***************************************************************************)
(* Claims about the calls of a run (Spec).                                 *)
(***************************************************************************)
\* C18: call_gemini does not retry: one invocation sends at most one request
\* to the service.
C18_NoClientRetry == attempts <= 1

\* C19: within one run the data-extraction call is made exactly once: never
\* more than once, whether it failed or returned site data, and once the site
\* data has been obtained it has been made once.
C19_ExtractionOnce ==
    /\ CallsFor("extraction") <= 1
    /\ pc \in AfterExtraction => CallsFor("extraction") = 1
    /\ (pc = "Failed" /\ failure.state = "Extracting") => CallsFor("extraction") = 1

\* a run that went on to its end made the extraction call once
C19_Witness ==
    /\ pc = "Done"
    /\ Len(GenerationCalls) = NSteps
    /\ CallsFor("extraction") = 1

(***************************************************************************)
(* Claims about the output tree of a run (Spec).                           *)
(***************************************************************************)
\* the states of a run after it wrote src/data/products.json
AfterPersisting == {"Generating", "Finalizing", "Done"}

\* C21: the object a run writes to src/data/products.json satisfies the
\* Schema: after the persist step the file holds the extracted object as it
\* is, and that object has the six required keys, at least 4 products and at
\* least 6 gallery items.
C21_PersistedSchema ==
    pc \in AfterPersisting =>
        /\ files[ProductsJson].json = site_data
        /\ RequiredKeys \subseteq DOMAIN files[ProductsJson].json.items
        /\ Len(files[ProductsJson].json.items.products) >= 4
        /\ Len(files[ProductsJson].json.items.galleryItems) >= 6

(***************************************************************************)
(* SpecLive: a run in which every step that can be taken is taken in the   *)
(* end. call_gemini, write_file_wrapper and subprocess.run are synchronous *)
(* calls: the run waits for each and goes on when it returns or raises.    *)
(***************************************************************************)
SpecLive == Init /\ [][Next]_vars /\ WF_vars(Next)

\* the handler of src/main.py or the run it started is over
Ended == pc \in Terminal \/ pc = "main_end"

ScaffoldingPaths == {ScaffoldingFiles[i] : i \in 1..Len(ScaffoldingFiles)}

\* C23: no two steps of the catalog have the same output path, and no step
\* writes to src/data/products.json or to the path of a scaffolding file; a
\* generation step leaves every file that is already in the tree as it is.
C23_DisjointPaths ==
    /\ [](\A i \in 1..NSteps : \A j \in 1..NSteps :
              i # j => Catalog[i].path # Catalog[j].path)
    /\ [](\A i \in 1..NSteps :
              Catalog[i].path \notin {ProductsJson} \cup ScaffoldingPaths)
    /\ [][pc = "Generating" =>
              \A path \in DOMAIN files :
                  path \in DOMAIN files' /\ files'[path] = files[path]]_vars

\* a run wrote the scaffolding files, products.json and one file for each
\* step of the catalog
C23_Witness ==
    /\ pc = "Done"
    /\ Len(GenerationCalls) = NSteps
    /\ Cardinality(DOMAIN files) = Len(ScaffoldingFiles) + 1 + NSteps

\* the tree that holds the scaffolding files and nothing else
OnlyScaffolding == WriteScaffolding(NoFiles, Len(ScaffoldingFiles))

\* C24: generate_website_files removes the output directory and writes the
\* scaffolding files before it makes the extraction call: when the call is
\* about to be made, and after a run that failed at extraction, the tree
\* holds the scaffolding files only, whatever an earlier run left in it.
C24_FailedRunTree ==
    /\ pc = "Extracting" => (files = OnlyScaffolding /\ calls = <<>>)
    /\ (pc = "Failed" /\ failure.state = "Extracting") =>
           /\ files = OnlyScaffolding
           /\ ProductsJson \notin DOMAIN files
           /\ \A i \in 1..NSteps : Catalog[i].path \notin DOMAIN files

\* a run failed at extraction, with the completion holding no JSON
C24_Witness ==
    /\ pc = "Failed"
    /\ failure = Raise("Extracting", "ValueError", 0)
    /\ DOMAIN files = ScaffoldingPaths

(***************************************************************************)
(* Claims about extract_json_from_string (SpecJson), continued.            *)
(***************************************************************************)
\* C25: when the text holds a fenced block tagged json whose content does
\* not parse, extract_json_from_string returns None, also when the text from
\* the first opening brace to the last closing brace would parse; what the
\* brace scan finds is returned only when no block tagged json is matched.
C25_NoFallback ==
    jOut # <<>> =>
        /\ (JsonBlockOpenings(jText) # {} /\ ~json_loads(BlockContent(jText)).ok)
               => jOut[1] = None
        /\ (JsonBlockOpenings(jText) # {} /\ jOut[1] # None)
               => jOut[1] = ParseOf(BlockContent(jText))

\* None was returned for a block that does not parse although the braces
\* elsewhere in the text hold a complete object
C25_Witness ==
    /\ jOut # <<>>
    /\ JsonBlockOpenings(jText) # {}
    /\ ~json_loads(BlockContent(jText)).ok
    /\ ParseOf(BraceSpan(jText)) = FullSite
    /\ jOut[1] = None

(***************************************************************************)
(* preview_server.py: PreviewServer and show_preview_interface, one        *)
(* session of the preview interface (SpecPreview).  A process is a number  *)
(* in the order subprocess.Popen created it; 0 stands for None.            *)
(***************************************************************************)
\* the value start_preview stores in local_url
LocalUrl == "http://localhost:3001"

\* the processes Popen started on which terminate() was never called
LiveProcesses == pvStarted \ pvTerminated

\* PreviewServer.get_status
get_status ==
    [is_running |-> pvProcess # 0,
     local_url  |-> IF pvProcess # 0 THEN pvUrl ELSE "None"]

\* PreviewServer.start_preview, Popen returning the process pid
start_preview(pid) ==
    /\ pvProcess' = pid
    /\ pvUrl' = LocalUrl
    /\ pvStarted' = pvStarted \cup {pid}

\* PreviewServer.stop_preview
stop_preview ==
    IF pvProcess # 0
    THEN /\ pvTerminated' = pvTerminated \cup {pvProcess}
         /\ pvProcess' = 0
    ELSE UNCHANGED <<pvProcess, pvTerminated>>

\* a Start button drawn whatever the status says
StartButtonShownAlways == TRUE

\* show_preview_interface draws the Start button in the branch
\* "if not status['is_running']" and the two others in its else branch
StartButtonShown == ~get_status.is_running

StopButtonsShown == get_status.is_running

InitPreview ==
    /\ PreviewIdle
    /\ RunIdle
    /\ NormIdle
    /\ JsonIdle
    /\ SchemaIdle
    /\ TemplatesIdle

\* the script runs without a click and puts a PreviewServer in the session
\* state when there is none
ShowPreviewInterface ==
    /\ pvSession' = TRUE
    /\ pvLast' = "render"
    /\ UNCHANGED <<pvProcess, pvUrl, pvStarted, pvTerminated, pvExited, pvDir>>
    /\ UNCHANGED <<runVars, normVars, jsonVars, schemaVars, templateVars>>

\* the user clicks Start Local Preview: start_preview runs when the output
\* directory exists, and Popen either returns a new process or raises (no
\* npm on the machine), which leaves the server as it was
StartLocalPreview ==
    /\ pvSession
    /\ StartButtonShown
    /\ pvLast' = "start"
    /\ IF pvDir
       THEN \E raised \in BOOLEAN :
                IF raised
                THEN UNCHANGED <<pvProcess, pvUrl, pvStarted>>
                ELSE /\ Cardinality(pvStarted) < MaxPreviewStarts
                     /\ start_preview(Cardinality(pvStarted) + 1)
       ELSE UNCHANGED <<pvProcess, pvUrl, pvStarted>>
    /\ UNCHANGED <<pvSession, pvTerminated, pvExited, pvDir>>
    /\ UNCHANGED <<runVars, normVars, jsonVars, schemaVars, templateVars>>

\* the user clicks Stop Preview
StopPreview ==
    /\ pvSession
    /\ StopButtonsShown
    /\ stop_preview
    /\ pvLast' = "stop"
    /\ UNCHANGED <<pvSession, pvUrl, pvStarted, pvExited, pvDir>>
    /\ UNCHANGED <<runVars, normVars, jsonVars, schemaVars, templateVars>>

\* the user clicks Refresh Status: the script only runs again
RefreshStatus ==
    /\ pvSession
    /\ StopButtonsShown
    /\ pvLast' = "refresh"
    /\ UNCHANGED <<pvSession, pvProcess, pvUrl, pvStarted, pvTerminated,
                   pvExited, pvDir>>
    /\ UNCHANGED <<runVars, normVars, jsonVars, schemaVars, templateVars>>

\* stop_preview called on the session's server while it tracks no process
StopPreviewUntracked ==
    /\ pvSession
    /\ pvProcess = 0
    /\ stop_preview
    /\ pvLast' = "stop_preview"
    /\ UNCHANGED <<pvSession, pvUrl, pvStarted, pvExited, pvDir>>
    /\ UNCHANGED <<runVars, normVars, jsonVars, schemaVars, templateVars>>

\* npm run dev ends by itself (the port is taken, the build breaks); the
\* server keeps its Popen object
PreviewProcessExits ==
    /\ \E p \in LiveProcesses \ pvExited : pvExited' = pvExited \cup {p}
    /\ pvLast' = "exit"
    /\ UNCHANGED <<pvSession, pvProcess, pvUrl, pvStarted, pvTerminated, pvDir>>
    /\ UNCHANGED <<runVars, normVars, jsonVars, schemaVars, templateVars>>

\* a generation creates generated_website, or the directory is removed
OutputDirectoryChanges ==
    /\ pvDir' = ~pvDir
    /\ pvLast' = "directory"
    /\ UNCHANGED <<pvSession, pvProcess, pvUrl, pvStarted, pvTerminated,
                   pvExited>>
    /\ UNCHANGED <<runVars, normVars, jsonVars, schemaVars, templateVars>>

NextPreview ==
    \/ ShowPreviewInterface
    \/ StartLocalPreview
    \/ StopPreview
    \/ RefreshStatus
    \/ StopPreviewUntracked
    \/ PreviewProcessExits
    \/ OutputDirectoryChanges

SpecPreview == InitPreview /\ [][NextPreview]_vars

====
